---- MODULE Spec2Model ----
(***************************************************************************)
(* Model of scripts/notion_sync.py: the GitHub -> Notion synchronisation   *)
(* run (main, iter_events, dispatch_events, the event handlers,            *)
(* NotionSyncContext.upsert_page) together with the durable mapping cache  *)
(* (load_mappings, atomic_write_json).                                     *)
(*                                                                         *)
(* Python values are encoded as strings: "None" is None, "i<n>" is the     *)
(* integer n, "s<text>" is the string <text> ("s" is the empty string),    *)
(* and "[...]" is a JSON list.  Page and database ids are plain strings,   *)
(* "" being the empty id.                                                  *)
(***************************************************************************)
EXTENDS Integers, Sequences, FiniteSets, TLC

\* ------------------------------------------------------------------------
\* Bounds of the model
MaxBatch == 3       \* longest payload array

\* ------------------------------------------------------------------------
\* Python values
NoneV == "None"

\* bool(v) of Python: None, 0, "" and [] are falsy
Truthy(v) == v \notin {"None", "i0", "s", ""}

\* a or b
PyOr(a, b) == IF Truthy(a) THEN a ELSE b

\* str(v), as the f-string of make_mapping_key formats it
PyStr(v) ==
    CASE v = "None" -> "None"
      [] v = "i0"   -> "0"
      [] v = "i1"   -> "1"
      [] v = "i2"   -> "2"
      [] v = "s"    -> ""
      [] v = "s1"   -> "1"
      [] v = "sN1"  -> "N1"
      [] OTHER      -> v

\* ------------------------------------------------------------------------
\* Mappings (dict of str -> str) as functions on a finite set of keys
EmptyMap == [k \in {} |-> ""]

MapGet(m, k) == IF k \in DOMAIN m THEN m[k] ELSE NoneV

MapPut(m, k, v) == [x \in (DOMAIN m) \cup {k} |-> IF x = k THEN v ELSE m[x]]

\* ------------------------------------------------------------------------
\* Routing configuration
DATABASE_ENV_VARS ==
    [issues       |-> "NOTION_ISSUE_DATABASE_ID",
     pull_request |-> "NOTION_PULL_REQUEST_DATABASE_ID",
     discussion   |-> "NOTION_DISCUSSION_DATABASE_ID",
     project      |-> "NOTION_PROJECT_DATABASE_ID",
     workflow_run |-> "NOTION_WORKFLOW_DATABASE_ID"]

DEFAULT_DATABASE_ENV == "NOTION_DEFAULT_DATABASE_ID"

ensure_database_id_NoDefault(event_type, e) ==
    IF event_type \in DOMAIN DATABASE_ENV_VARS
    THEN MapGet(e, DATABASE_ENV_VARS[event_type])
    ELSE NoneV

\* falls back to the issue database when nothing else is configured
ensure_database_id_AnyDatabase(event_type, e) ==
    LET specific_env == IF event_type \in DOMAIN DATABASE_ENV_VARS
                        THEN DATABASE_ENV_VARS[event_type] ELSE NoneV
        db_id == IF Truthy(specific_env) THEN MapGet(e, specific_env) ELSE NoneV
    IN  IF Truthy(specific_env) /\ Truthy(db_id) THEN db_id
        ELSE PyOr(MapGet(e, DEFAULT_DATABASE_ENV), MapGet(e, "NOTION_ISSUE_DATABASE_ID"))

ensure_database_id(event_type, e) ==
    LET specific_env == IF event_type \in DOMAIN DATABASE_ENV_VARS
                        THEN DATABASE_ENV_VARS[event_type] ELSE NoneV
        db_id == IF Truthy(specific_env) THEN MapGet(e, specific_env) ELSE NoneV
    IN  IF Truthy(specific_env) /\ Truthy(db_id)
        THEN db_id
        ELSE MapGet(e, DEFAULT_DATABASE_ENV)

\* ------------------------------------------------------------------------
\* Identity of an entity
make_mapping_key_NoKind(event_type, github_id) == PyStr(github_id)

make_mapping_key(event_type, github_id) == event_type \o ":" \o PyStr(github_id)

entity_identifier(entity) ==
    PyOr(PyOr(PyOr(entity.node_id, entity.id), entity.number), entity.name)

\* ------------------------------------------------------------------------
\* Property builder

\* str.title() on the state values that occur
PyTitle(st) ==
    CASE st = "sopen"   -> "sOpen"
      [] st = "sclosed" -> "sClosed"
      [] st = "smerged" -> "sMerged"
      [] OTHER          -> st

\* notion_rich_text: the longest content that is left as it is, and the
\* length of the prefix that is kept of a longer one
RichTextLimit == 1900

RichTextKeep == 1897

\* a text is the sequence of its characters
Ellipsis == <<".", ".", ".">>

\* a truncation that keeps a prefix as long as the limit
notion_rich_text_KeepsLimit(content) ==
    IF Len(content) > RichTextLimit
    THEN SubSeq(content, 1, RichTextLimit) \o Ellipsis
    ELSE content

\* the content of the rich text block notion_rich_text returns
notion_rich_text(content) ==
    IF Len(content) > RichTextLimit
    THEN SubSeq(content, 1, RichTextKeep) \o Ellipsis
    ELSE content

build_common_properties(title, url, state, updated_at, metadata, type_name, number) ==
    LET p0 == [k \in {"Name"} |-> PyOr(title, "sUntitled")]
        p1 == IF Truthy(url) THEN MapPut(p0, "URL", url) ELSE p0
        p2 == IF Truthy(state)
              THEN MapPut(p1, "State", IF Truthy(state) THEN PyTitle(state) ELSE "sUnknown")
              ELSE p1
        p3 == IF Truthy(updated_at) THEN MapPut(p2, "Last Updated", updated_at) ELSE p2
        p4 == IF Truthy(metadata) THEN MapPut(p3, "Metadata", metadata) ELSE p3
        p5 == IF Truthy(type_name) THEN MapPut(p4, "Type", type_name) ELSE p4
    IN  IF number # NoneV THEN MapPut(p5, "Number", number) ELSE p5

\* ------------------------------------------------------------------------
\* The remote store.  Outcome of one remote call: "ok" (create answers with
\* a page id), "noid" (create answers without an "id"), "raise" (the call
\* raises APIResponseError or another Exception).
RemoteOutcomes == {"ok", "noid", "raise"}

\* the id the remote gives to the page of its n-th successful create
PageId(n) == "pg" \o ToString(n)

\* Result of a handler or of upsert_page: the value returned (changed,
\* notion_id), whether an exception left it, the cache afterwards, the
\* remote calls made, the path taken, and the arguments upsert_page was
\* called with (called = FALSE when the handler never called it).
NoUpsert ==
    [called |-> FALSE, event_type |-> NoneV, github_id |-> NoneV, properties |-> EmptyMap]

Upsert(event_type, github_id, properties) ==
    [called |-> TRUE, event_type |-> event_type, github_id |-> github_id,
     properties |-> properties]

Result(status, changed, notion_id, raised, m, calls, args) ==
    [status |-> status, changed |-> changed, notion_id |-> notion_id,
     raised |-> raised, mappings |-> m, calls |-> calls, args |-> args]

UpdateCall(page_id, properties) ==
    [op |-> "update", target |-> page_id, properties |-> properties]

CreateCall(database_id, properties) ==
    [op |-> "create", target |-> database_id, properties |-> properties]

\* variants of upsert_page with a slip in them
upsert_page_NoRemember(m, e, event_type, github_id, properties, outcome, fresh) ==
    LET database_id == ensure_database_id(event_type, e)
        notion_id   == MapGet(m, make_mapping_key(event_type, github_id))
        args        == Upsert(event_type, github_id, properties)
    IN  IF ~Truthy(database_id) THEN Result("unroutable", FALSE, NoneV, FALSE, m, <<>>, args)
        ELSE IF Truthy(notion_id)
        THEN Result(IF outcome = "raise" THEN "update_failed" ELSE "updated",
                    FALSE, notion_id, FALSE, m, <<UpdateCall(notion_id, properties)>>, args)
        ELSE CASE outcome = "raise" ->
                    Result("create_failed", FALSE, notion_id, FALSE, m,
                           <<CreateCall(database_id, properties)>>, args)
               [] outcome = "noid" ->
                    Result("create_noid", TRUE, NoneV, FALSE, m,
                           <<CreateCall(database_id, properties)>>, args)
               [] OTHER ->
                    Result("created", TRUE, fresh, FALSE, m,
                           <<CreateCall(database_id, properties)>>, args)

upsert_page_AlwaysCreate(m, e, event_type, github_id, properties, outcome, fresh) ==
    LET database_id == ensure_database_id(event_type, e)
        mapping_key == make_mapping_key(event_type, github_id)
        notion_id   == MapGet(m, mapping_key)
        args        == Upsert(event_type, github_id, properties)
    IN  IF ~Truthy(database_id) THEN Result("unroutable", FALSE, NoneV, FALSE, m, <<>>, args)
        ELSE CASE outcome = "raise" ->
                    Result("create_failed", FALSE, notion_id, FALSE, m,
                           <<CreateCall(database_id, properties)>>, args)
               [] outcome = "noid" ->
                    Result("create_noid", TRUE, NoneV, FALSE, m,
                           <<CreateCall(database_id, properties)>>, args)
               [] OTHER ->
                    Result("created", TRUE, fresh, FALSE, MapPut(m, mapping_key, fresh),
                           <<CreateCall(database_id, properties)>>, args)

upsert_page_RecordsFailure(m, e, event_type, github_id, properties, outcome, fresh) ==
    LET database_id == ensure_database_id(event_type, e)
        mapping_key == make_mapping_key(event_type, github_id)
        notion_id   == MapGet(m, mapping_key)
        args        == Upsert(event_type, github_id, properties)
    IN  IF ~Truthy(database_id) THEN Result("unroutable", FALSE, NoneV, FALSE, m, <<>>, args)
        ELSE IF Truthy(notion_id)
        THEN Result(IF outcome = "raise" THEN "update_failed" ELSE "updated",
                    FALSE, notion_id, FALSE, m, <<UpdateCall(notion_id, properties)>>, args)
        ELSE CASE outcome = "raise" ->
                    Result("create_failed", FALSE, notion_id, FALSE,
                           MapPut(m, mapping_key, "failed"),
                           <<CreateCall(database_id, properties)>>, args)
               [] outcome = "noid" ->
                    Result("create_noid", TRUE, NoneV, FALSE, m,
                           <<CreateCall(database_id, properties)>>, args)
               [] OTHER ->
                    Result("created", TRUE, fresh, FALSE, MapPut(m, mapping_key, fresh),
                           <<CreateCall(database_id, properties)>>, args)

upsert_page_FabricatesId(m, e, event_type, github_id, properties, outcome, fresh) ==
    LET database_id == ensure_database_id(event_type, e)
        mapping_key == make_mapping_key(event_type, github_id)
        notion_id   == MapGet(m, mapping_key)
        args        == Upsert(event_type, github_id, properties)
    IN  IF ~Truthy(database_id) THEN Result("unroutable", FALSE, NoneV, FALSE, m, <<>>, args)
        ELSE IF Truthy(notion_id)
        THEN Result(IF outcome = "raise" THEN "update_failed" ELSE "updated",
                    FALSE, notion_id, FALSE, m, <<UpdateCall(notion_id, properties)>>, args)
        ELSE CASE outcome = "raise" ->
                    Result("create_failed", FALSE, notion_id, FALSE, m,
                           <<CreateCall(database_id, properties)>>, args)
               [] outcome = "noid" ->
                    Result("create_noid", TRUE, NoneV, FALSE,
                           MapPut(m, mapping_key, "local-" \o PyStr(github_id)),
                           <<CreateCall(database_id, properties)>>, args)
               [] OTHER ->
                    Result("created", TRUE, fresh, FALSE, MapPut(m, mapping_key, fresh),
                           <<CreateCall(database_id, properties)>>, args)

upsert_page(m, e, event_type, github_id, properties, outcome, fresh) ==
    LET database_id == ensure_database_id(event_type, e)
        mapping_key == make_mapping_key(event_type, github_id)
        notion_id   == MapGet(m, mapping_key)
        args        == Upsert(event_type, github_id, properties)
    IN  IF ~Truthy(database_id)
        THEN Result("unroutable", FALSE, NoneV, FALSE, m, <<>>, args)
        ELSE IF Truthy(notion_id)
        THEN IF outcome = "raise"
             THEN Result("update_failed", FALSE, notion_id, FALSE, m,
                         <<UpdateCall(notion_id, properties)>>, args)
             ELSE Result("updated", FALSE, notion_id, FALSE, m,
                         <<UpdateCall(notion_id, properties)>>, args)
        ELSE CASE outcome = "raise" ->
                    Result("create_failed", FALSE, notion_id, FALSE, m,
                           <<CreateCall(database_id, properties)>>, args)
               [] outcome = "noid" ->
                    Result("create_noid", TRUE, NoneV, FALSE, m,
                           <<CreateCall(database_id, properties)>>, args)
               [] OTHER ->
                    Result("created", TRUE, fresh, FALSE,
                           MapPut(m, mapping_key, fresh),
                           <<CreateCall(database_id, properties)>>, args)

\* ------------------------------------------------------------------------
\* Event handlers.  An event carries the entity its handler reads
\* (event_payload["issue"], ["pull_request"], ...).  entity.user is the
\* nested author object: "null" (a JSON null) makes .get("login") raise.
MissingIdentifier(m) == Result("noid", FALSE, NoneV, FALSE, m, <<>>, NoUpsert)

HandlerRaised(m) == Result("raised", FALSE, NoneV, TRUE, m, <<>>, NoUpsert)

\* a handler that files the page under the kind the event came with
handle_issues_OwnKind(ev, m, e, outcome, fresh) ==
    LET issue     == ev.entity
        github_id == entity_identifier(issue)
    IN  IF github_id = NoneV THEN MissingIdentifier(m)
        ELSE IF issue.user = "null" THEN HandlerRaised(m)
        ELSE upsert_page(m, e, ev.event_type, github_id,
                 build_common_properties(issue.title, NoneV, issue.state, NoneV,
                                         "s{issue metadata}", "sIssue", issue.number),
                 outcome, fresh)

handle_issues(ev, m, e, outcome, fresh) ==
    LET issue     == ev.entity
        github_id == entity_identifier(issue)
    IN  IF github_id = NoneV THEN MissingIdentifier(m)
        ELSE IF issue.user = "null" THEN HandlerRaised(m)
        ELSE upsert_page(m, e, "issues", github_id,
                 build_common_properties(issue.title, NoneV, issue.state, NoneV,
                                         "s{issue metadata}", "sIssue", issue.number),
                 outcome, fresh)

handle_pull_request(ev, m, e, outcome, fresh) ==
    LET pr        == ev.entity
        github_id == entity_identifier(pr)
        state     == IF Truthy(pr.merged) THEN "smerged" ELSE pr.state
    IN  IF github_id = NoneV THEN MissingIdentifier(m)
        ELSE IF pr.user = "null" THEN HandlerRaised(m)
        ELSE upsert_page(m, e, "pull_request", github_id,
                 build_common_properties(pr.title, NoneV, state, NoneV,
                                         "s{pull request metadata}", "sPull Request", pr.number),
                 outcome, fresh)

handle_discussion(ev, m, e, outcome, fresh) ==
    LET discussion == ev.entity
        github_id  == entity_identifier(discussion)
    IN  IF github_id = NoneV THEN MissingIdentifier(m)
        ELSE IF discussion.user = "null" THEN HandlerRaised(m)
        ELSE upsert_page(m, e, "discussion", github_id,
                 build_common_properties(discussion.title, NoneV, discussion.state, NoneV,
                                         "s{discussion metadata}", "sDiscussion", NoneV),
                 outcome, fresh)

handle_project(ev, m, e, outcome, fresh) ==
    LET project   == ev.entity
        github_id == entity_identifier(project)
    IN  IF github_id = NoneV THEN MissingIdentifier(m)
        ELSE IF project.user = "null" THEN HandlerRaised(m)
        ELSE upsert_page(m, e, "project", github_id,
                 build_common_properties(project.name, NoneV, project.state, NoneV,
                                         "s{project metadata}", "sProject", NoneV),
                 outcome, fresh)

handle_workflow_run(ev, m, e, outcome, fresh) ==
    LET workflow  == ev.entity
        github_id == entity_identifier(workflow)
    IN  IF github_id = NoneV THEN MissingIdentifier(m)
        ELSE upsert_page(m, e, "workflow_run", github_id,
                 build_common_properties(
                     PyOr(PyOr(workflow.title, workflow.name), "sWorkflow Run"),
                     NoneV, workflow.state, NoneV,
                     "s{workflow metadata}", "sWorkflow", NoneV),
                 outcome, fresh)

\* EVENT_HANDLERS: event type -> name of the handler
EVENT_HANDLERS ==
    [issues              |-> "handle_issues",
     issue               |-> "handle_issues",
     pull_request        |-> "handle_pull_request",
     pull_request_target |-> "handle_pull_request",
     discussion          |-> "handle_discussion",
     project             |-> "handle_project",
     workflow_run        |-> "handle_workflow_run"]

\* handler(payload, context)
CallHandler(handler, ev, m, e, outcome, fresh) ==
    CASE handler = "handle_issues"       -> handle_issues(ev, m, e, outcome, fresh)
      [] handler = "handle_pull_request" -> handle_pull_request(ev, m, e, outcome, fresh)
      [] handler = "handle_discussion"   -> handle_discussion(ev, m, e, outcome, fresh)
      [] handler = "handle_project"      -> handle_project(ev, m, e, outcome, fresh)
      [] OTHER                           -> handle_workflow_run(ev, m, e, outcome, fresh)

\* ------------------------------------------------------------------------
\* The durable cache file and its temporary sibling.  A file is the text
\* json.dump wrote: the (key, value) pairs in the order written, whether
\* the text is a complete JSON object (a truncated text is not), and whether
\* its bytes are valid UTF-8 (the bytes of a damaged file need not be).
NoFile == [exists |-> FALSE, complete |-> FALSE, utf8 |-> TRUE, pairs |-> <<>>]

TruncatedFile == [exists |-> TRUE, complete |-> FALSE, utf8 |-> TRUE, pairs |-> <<>>]

\* a file whose bytes are not valid UTF-8
UndecodableFile == [exists |-> TRUE, complete |-> FALSE, utf8 |-> FALSE, pairs |-> <<>>]

\* lexicographic order of the mapping keys, as sort_keys=True orders them
SortedKeys ==
    <<"0", "1", "2", "N1", "issue:1", "issues:", "issues:0", "issues:1", "issues:2", "issues:N1",
      "issues:a\"b", "pull_request:", "pull_request:0", "pull_request:1", "pull_request:2",
      "pull_request:N1">>

KeyRank(k) == CHOOSE i \in 1..Len(SortedKeys) : SortedKeys[i] = k

RECURSIVE SortedPairs(_, _)
SortedPairs(m, keys) ==
    IF keys = {} THEN <<>>
    ELSE LET k == CHOOSE x \in keys : \A y \in keys : KeyRank(x) <= KeyRank(y)
         IN  <<(<<k, m[k]>>)>> \o SortedPairs(m, keys \ {k})

\* the JSON string literal of a Python string, without its outer quotes: the
\* encoder escapes the quote and the backslash
JsonEscape(str) ==
    CASE str = "issues:a\"b" -> "issues:a\\\"b"
      [] str = "pg\\2"       -> "pg\\\\2"
      [] OTHER               -> str

\* the Python string of a JSON string literal
JsonUnescape(lit) ==
    CASE lit = "issues:a\\\"b" -> "issues:a\"b"
      [] lit = "pg\\\\2"       -> "pg\\2"
      [] OTHER                 -> lit

\* a literal json.load accepts: no quote, no backslash outside an escape
ValidLiteral(lit) == lit \notin {"issues:a\"b", "pg\\2"}

EscapedPairs(ps) ==
    [i \in 1..Len(ps) |-> <<JsonEscape(ps[i][1]), JsonEscape(ps[i][2])>>]

\* a dump that writes the strings as they are
json_dump_Raw(m) ==
    LET ps == SortedPairs(m, DOMAIN m)
    IN  [exists |-> TRUE,
         complete |-> \A i \in 1..Len(ps) : ValidLiteral(ps[i][1]) /\ ValidLiteral(ps[i][2]),
         utf8 |-> TRUE, pairs |-> ps]

\* json.dump(data, indent=2, sort_keys=True)
json_dump(m) ==
    [exists |-> TRUE, complete |-> TRUE, utf8 |-> TRUE,
     pairs |-> EscapedPairs(SortedPairs(m, DOMAIN m))]

\* json.load of an object text: a later duplicate of a key replaces the earlier
RECURSIVE ParsePairs(_, _)
ParsePairs(pairs, acc) ==
    IF pairs = <<>> THEN acc
    ELSE ParsePairs(Tail(pairs),
                    MapPut(acc, JsonUnescape(Head(pairs)[1]), JsonUnescape(Head(pairs)[2])))

\* load_mappings: fp.read() inside json.load raises UnicodeDecodeError on
\* bytes that are not UTF-8; only json.JSONDecodeError is caught
load_mappings_raises(f) == f.exists /\ ~f.utf8

\* load_mappings, when it returns
load_mappings(f) ==
    IF ~f.exists THEN EmptyMap
    ELSE IF ~f.complete THEN EmptyMap
    ELSE ParsePairs(f.pairs, EmptyMap)

\* ------------------------------------------------------------------------
\* Inputs of a run
Entity(id, user) ==
    [node_id |-> NoneV, id |-> id, number |-> NoneV, name |-> NoneV,
     title |-> "sBug", state |-> "sopen", user |-> user, merged |-> NoneV]

Event(event_type, entity) ==
    [is_object |-> TRUE, event_type |-> event_type, entity |-> entity]

\* an array entry that is not a JSON object
NonObject == [is_object |-> FALSE, event_type |-> NoneV, entity |-> Entity(NoneV, "ok")]

\* event_type given as a JSON list: truthy and not hashable
UnhashableType == "[issues]"

Entries ==
    { Event("issues", Entity("i1", "ok")),
      Event("pull_request", Entity("i1", "ok")),
      Event("issues", Entity(NoneV, "ok")),
      Event("issues", Entity("i1", "null")),
      Event("deployment", Entity("i1", "ok")),
      Event(UnhashableType, Entity("i1", "ok")),
      Event(NoneV, Entity("i1", "ok")),
      NonObject }

Batches == UNION { [1..n -> Entries] : n \in 0..MaxBatch }

Payloads ==
    { [shape |-> "array", items |-> b] : b \in Batches }
    \cup { [shape |-> "object", items |-> <<x>>] : x \in Entries \ {NonObject} }
    \cup { [shape |-> "scalar", items |-> <<>>] }

\* --event-type
DefaultEventTypes == {NoneV, "issues"}

Envs ==
    { [k \in {"NOTION_ISSUE_DATABASE_ID"} |-> "dbIssues"],
      [k \in {"NOTION_ISSUE_DATABASE_ID", "NOTION_DEFAULT_DATABASE_ID"} |->
          IF k = "NOTION_ISSUE_DATABASE_ID" THEN "dbIssues" ELSE "dbDefault"] }

InitialFiles ==
    { NoFile,
      TruncatedFile,
      UndecodableFile,
      [exists |-> TRUE, complete |-> TRUE, utf8 |-> TRUE,
       pairs |-> <<(<<"issues:1", "pg0">>), (<<"pull_request:1", "pg9">>)>>],
      [exists |-> TRUE, complete |-> TRUE, utf8 |-> TRUE,
       pairs |-> <<(<<"issues:1", "">>)>>] }

\* ------------------------------------------------------------------------
\* iter_events, consumed by list(): every entry is validated before the
\* first event is dispatched.
RECURSIVE FirstInvalid(_, _, _)
FirstInvalid(items, default_event_type, i) ==
    IF i > Len(items) THEN 0
    ELSE IF ~items[i].is_object \/ ~Truthy(PyOr(items[i].event_type, default_event_type))
    THEN i
    ELSE FirstInvalid(items, default_event_type, i + 1)

Classified(items, default_event_type) ==
    [i \in 1..Len(items) |->
        [event_type |-> PyOr(items[i].event_type, default_event_type),
         entity     |-> items[i].entity]]

iter_events_Lazy(payload, default_event_type) ==
    LET bad == FirstInvalid(payload.items, default_event_type, 1)
    IN  IF payload.shape = "scalar" THEN [raised |-> TRUE, events |-> <<>>]
        ELSE [raised |-> FALSE,
              events |-> Classified(IF bad = 0 THEN payload.items
                                    ELSE SubSeq(payload.items, 1, bad - 1),
                                    default_event_type)]

iter_events(payload, default_event_type) ==
    IF payload.shape = "scalar" THEN [raised |-> TRUE, events |-> <<>>]
    ELSE IF FirstInvalid(payload.items, default_event_type, 1) # 0
    THEN [raised |-> TRUE, events |-> <<>>]
    ELSE [raised |-> FALSE, events |-> Classified(payload.items, default_event_type)]

\* ------------------------------------------------------------------------
\* State of a run
VARIABLES
    file,        \* config/notion_mappings.json
    tmp,         \* config/notion_mappings.tmp
    env,         \* os.environ: the routing configuration
    pc,          \* where the process is
    input,       \* what main was started with
    events,      \* list(iter_events(payload, args.event_type))
    idx,         \* index of the event dispatch_events is at
    mappings,    \* context.mappings
    loaded,      \* the mapping the persisted state holds when the run starts
    calls,       \* the calls the remote client received, in order
    hist,        \* one record per event dispatch_events has gone through
    exit_code,   \* exit status of the process (-1 while it runs)
    call,        \* the last application of a function on its own: name, arguments, result
    procs,       \* the runs that share the cache file, when there are several
    inode,       \* which file object the paths of the cache and its sibling name
    workflows,   \* DashboardAPI._workflows
    log_feed,    \* DashboardAPI._log_feed
    clock,       \* what datetime.now gave last, in ticks of the clock
    client,      \* a client that polls the live feed: its marker and what it has received
    reply        \* the last answer to an orchestration request, and the state before it

vars ==
    <<file, tmp, env, pc, input, events, idx, mappings, loaded, calls, hist, exit_code,
      call, procs, inode, workflows, log_feed, clock, client, reply>>

\* the state of the dashboard
dashboard == <<workflows, log_feed, clock, client, reply>>

\* what a single run of main leaves alone
aux == <<call, procs, inode, dashboard>>

NoCall == [fn |-> "none", args |-> <<>>, result |-> NoneV]

\* file objects are numbered from 1; 0 is "no file at this path"; written
\* holds the file objects that have text since they were last truncated
NoInodes == [file |-> 0, tmp |-> 0, next |-> 1, written |-> {}]

\* the dashboard is another process: while it is not constructed it has no
\* workflow, no log event, and has answered nothing
NoClient == [since |-> 0, received |-> <<>>]

NoReply ==
    [workflow_id |-> "", action |-> "none", status_code |-> 0,
     workflows |-> <<>>, log_feed |-> <<>>]

NoDashboard ==
    /\ workflows = <<>>
    /\ log_feed = <<>>
    /\ clock = 0
    /\ client = NoClient
    /\ reply = NoReply

\* What main was started with, as far as its fatal checks read it: whether
\* NOTION_TOKEN is set, the shape of the payload ("none" when it is never
\* read, "unloadable" when load_payload raises), the number of array entries
\* and the index of the first entry that is no object or has no event type
\* (0 when there is none).
Input(token, shape, n, bad) ==
    [token |-> token, shape |-> shape, n |-> n, bad |-> bad]

InputOf(p, d) == Input(TRUE, p.shape, Len(p.items), FirstInvalid(p.items, d, 1))

Init ==
    /\ file \in InitialFiles
    /\ tmp = NoFile
    /\ env \in Envs
    /\ pc = "start"
    /\ input = Input(FALSE, "none", 0, 0)
    /\ events = <<>>
    /\ idx = 0
    /\ mappings = EmptyMap
    /\ loaded = load_mappings(file)
    /\ calls = <<>>
    /\ hist = <<>>
    /\ exit_code = -1
    /\ call = NoCall
    /\ procs = <<>>
    /\ inode = NoInodes
    /\ NoDashboard

\* main returns 1 before a context exists
Fatal ==
    /\ pc' = "exited"
    /\ exit_code' = 1
    /\ UNCHANGED <<file, tmp, env, events, idx, mappings, loaded, calls, hist>>
    /\ UNCHANGED aux

\* main: NOTION_TOKEN is not set
MainMissingToken ==
    /\ pc = "start"
    /\ input' = Input(FALSE, "none", 0, 0)
    /\ Fatal

\* main: load_payload raises (unreadable file, text that is not JSON)
MainUnloadablePayload ==
    /\ pc = "start"
    /\ input' = Input(TRUE, "unloadable", 0, 0)
    /\ Fatal

\* main: list(iter_events(...)) raises ValueError
MainInvalidPayload ==
    /\ pc = "start"
    /\ \E p \in Payloads, d \in DefaultEventTypes :
          /\ iter_events(p, d).raised
          /\ input' = InputOf(p, d)
    /\ Fatal

\* main: the payload is valid, load_mappings() raises: the exception leaves
\* main, the interpreter prints the traceback and exits with status 1
MainLoadRaises ==
    /\ pc = "start"
    /\ \E p \in Payloads, d \in DefaultEventTypes :
          /\ ~iter_events(p, d).raised
          /\ input' = InputOf(p, d)
    /\ load_mappings_raises(file)
    /\ pc' = "raised"
    /\ exit_code' = 1
    /\ UNCHANGED <<file, tmp, env, events, idx, mappings, loaded, calls, hist>>
    /\ UNCHANGED aux

\* main: the payload is valid; the context is built and dispatch begins
MainBegin ==
    /\ pc = "start"
    /\ ~load_mappings_raises(file)
    /\ \E p \in Payloads, d \in DefaultEventTypes :
          /\ ~iter_events(p, d).raised
          /\ input' = InputOf(p, d)
          /\ events' = iter_events(p, d).events
    /\ mappings' = load_mappings(file)
    /\ idx' = 1
    /\ pc' = "dispatch"
    /\ UNCHANGED <<file, tmp, env, loaded, calls, hist, exit_code>>
    /\ UNCHANGED aux

\* ------------------------------------------------------------------------
\* dispatch_events

\* the successful creates so far in this run
Created == { i \in 1..Len(hist) : hist[i].status = "created" }

AtEvent == pc = "dispatch" /\ idx <= Len(events)

\* the loop goes on to the next event
NextEvent ==
    /\ idx' = idx + 1
    /\ pc' = "dispatch"

\* The record of one event: the handler's result, the cache before and
\* after it, what the remote did with its call (outcome, and the page id it
\* answered a create with), the cache file as it was when the handler
\* returned, and how far the persist that followed has come.
Record(r, outcome, fresh) ==
    [status |-> r.status, changed |-> r.changed, notion_id |-> r.notion_id,
     raised |-> r.raised, calls |-> r.calls, args |-> r.args,
     before |-> mappings, after |-> r.mappings,
     outcome |-> outcome, fresh |-> fresh, durable |-> file,
     persist |-> IF r.changed THEN "begun" ELSE "none"]

Skipped(status) ==
    Record(Result(status, FALSE, NoneV, FALSE, mappings, <<>>, NoUpsert), "ok", NoneV)

\* EVENT_HANDLERS.get(event_type) is None: warn and continue
DispatchNoHandler ==
    /\ AtEvent
    /\ events[idx].event_type # UnhashableType
    /\ events[idx].event_type \notin DOMAIN EVENT_HANDLERS
    /\ hist' = Append(hist, Skipped("nohandler"))
    /\ NextEvent
    /\ UNCHANGED <<file, tmp, env, input, events, mappings, loaded, calls, exit_code>>
    /\ UNCHANGED aux

\* EVENT_HANDLERS.get(event_type) raises TypeError (unhashable type) outside
\* the try block: the exception leaves dispatch_events and main
DispatchLookupRaises ==
    /\ AtEvent
    /\ events[idx].event_type = UnhashableType
    /\ hist' = Append(hist, Skipped("lookup_raised"))
    /\ pc' = "raised"
    /\ exit_code' = 1
    /\ UNCHANGED <<file, tmp, env, input, events, idx, mappings, loaded, calls>>
    /\ UNCHANGED aux

\* changed = handler(payload, context), with its remote call; an exception
\* of the handler is caught and logged
DispatchHandle ==
    /\ AtEvent
    /\ events[idx].event_type \in DOMAIN EVENT_HANDLERS
    /\ \E outcome \in RemoteOutcomes :
          LET r == CallHandler(EVENT_HANDLERS[events[idx].event_type], events[idx],
                               mappings, env, outcome, PageId(Cardinality(Created) + 1))
          IN  /\ r.status \in {"noid", "raised", "unroutable"} => outcome = "ok"
              /\ r.status \in {"updated"} => outcome # "noid"
              /\ mappings' = r.mappings
              /\ calls' = calls \o r.calls
              /\ hist' = Append(hist, Record(r, outcome,
                     IF r.calls # <<>> /\ r.calls[1].op = "create" /\ outcome = "ok"
                     THEN PageId(Cardinality(Created) + 1) ELSE NoneV))
              /\ IF r.changed
                 THEN pc' = "write_open" /\ idx' = idx
                 ELSE NextEvent
    /\ UNCHANGED <<file, tmp, env, input, events, loaded, exit_code>>
    /\ UNCHANGED aux

SetPersist(p) == hist' = [hist EXCEPT ![Len(hist)].persist = p]

\* a write that opens the canonical path itself
WriteOpen_InPlace ==
    /\ pc = "write_open"
    /\ file' = TruncatedFile
    /\ pc' = "write_dump"
    /\ UNCHANGED <<tmp, env, input, events, idx, mappings, loaded, calls, hist, exit_code>>
    /\ UNCHANGED aux

\* atomic_write_json: temp_path.open("w") creates or truncates the file
WriteOpen ==
    /\ pc = "write_open"
    /\ tmp' = TruncatedFile
    /\ pc' = "write_dump"
    /\ UNCHANGED <<file, env, input, events, idx, mappings, loaded, calls, hist, exit_code>>
    /\ UNCHANGED aux

\* atomic_write_json: json.dump, flush, fsync, close
WriteDump ==
    /\ pc = "write_dump"
    /\ tmp' = json_dump(mappings)
    /\ pc' = "write_replace"
    /\ UNCHANGED <<file, env, input, events, idx, mappings, loaded, calls, hist, exit_code>>
    /\ UNCHANGED aux

\* atomic_write_json: temp_path.replace(path), an atomic rename
WriteReplace ==
    /\ pc = "write_replace"
    /\ file' = tmp
    /\ tmp' = NoFile
    /\ SetPersist("ok")
    /\ NextEvent
    /\ UNCHANGED <<env, input, events, mappings, loaded, calls, exit_code>>
    /\ UNCHANGED aux

\* atomic_write_json raises OSError at the step it is at (no permission,
\* disk full, ...): dispatch_events catches and logs it
WriteFails ==
    /\ pc \in {"write_open", "write_dump", "write_replace"}
    /\ SetPersist("failed")
    /\ NextEvent
    /\ UNCHANGED <<file, tmp, env, input, events, mappings, loaded, calls, exit_code>>
    /\ UNCHANGED aux

\* the loop is over: main returns 0
DispatchDone ==
    /\ pc = "dispatch"
    /\ idx > Len(events)
    /\ pc' = "exited"
    /\ exit_code' = 0
    /\ UNCHANGED <<file, tmp, env, input, events, idx, mappings, loaded, calls, hist>>
    /\ UNCHANGED aux

\* the process is killed
Crash ==
    /\ pc \in {"dispatch", "write_open", "write_dump", "write_replace"}
    /\ pc' = "crashed"
    /\ UNCHANGED <<file, tmp, env, input, events, idx, mappings, loaded, calls, hist, exit_code>>
    /\ UNCHANGED aux

Next ==
    \/ MainMissingToken
    \/ MainUnloadablePayload
    \/ MainInvalidPayload
    \/ MainLoadRaises
    \/ MainBegin
    \/ DispatchNoHandler
    \/ DispatchLookupRaises
    \/ DispatchHandle
    \/ WriteOpen
    \/ WriteDump
    \/ WriteReplace
    \/ WriteFails
    \/ DispatchDone
    \/ Crash

Spec == Init /\ [][Next]_vars

\* ========================================================================
\* A run whose payload holds the same entity under the kinds that share a
\* handler: issue and issues, pull_request and pull_request_target.

MaxAliasBatch == 2  \* longest payload array of such a run

AliasKinds == {"issue", "issues", "pull_request", "pull_request_target"}

AliasEntries == { Event(kind, Entity("i1", "ok")) : kind \in AliasKinds }

AliasPayloads ==
    { [shape |-> "array", items |-> b] :
      b \in UNION { [1..n -> AliasEntries] : n \in 1..MaxAliasBatch } }

\* main: the payload is valid; the context is built and dispatch begins
MainBeginAliases ==
    /\ pc = "start"
    /\ ~load_mappings_raises(file)
    /\ \E p \in AliasPayloads :
          /\ ~iter_events(p, NoneV).raised
          /\ input' = InputOf(p, NoneV)
          /\ events' = iter_events(p, NoneV).events
    /\ mappings' = load_mappings(file)
    /\ idx' = 1
    /\ pc' = "dispatch"
    /\ UNCHANGED <<file, tmp, env, loaded, calls, hist, exit_code>>
    /\ UNCHANGED aux

NextAliases ==
    \/ MainBeginAliases
    \/ DispatchHandle
    \/ WriteOpen
    \/ WriteDump
    \/ WriteReplace
    \/ WriteFails
    \/ DispatchDone
    \/ Crash

SpecAliases == Init /\ [][NextAliases]_vars

\* ========================================================================
\* The functions on their own: each action applies one function to
\* arguments drawn from a bounded set and records the application in call.

MaxEntries == 2     \* most entries of a mapping that is written and read back
MaxExcess == 3      \* how far the lengths of the texts go below and above the limit

\* no run of main is going on
NoRun ==
    /\ file = NoFile
    /\ tmp = NoFile
    /\ env = EmptyMap
    /\ pc = "off"
    /\ input = Input(FALSE, "none", 0, 0)
    /\ events = <<>>
    /\ idx = 0
    /\ mappings = EmptyMap
    /\ loaded = EmptyMap
    /\ calls = <<>>
    /\ hist = <<>>
    /\ exit_code = -1

run == <<file, tmp, env, pc, input, events, idx, mappings, loaded, calls, hist, exit_code>>

Applied(fn, args, result) == [fn |-> fn, args |-> args, result |-> result]

\* entities with every combination of absent, falsy and truthy identifiers
IdEntities ==
    { [node_id |-> a, id |-> b, number |-> c, name |-> d,
       title |-> "sBug", state |-> "sopen", user |-> "ok", merged |-> NoneV] :
      a \in {NoneV, "s", "sN1"}, b \in {NoneV, "i0", "i1"},
      c \in {NoneV, "i0", "i2"}, d \in {NoneV, "s", "sdocs"} }

Apply_entity_identifier ==
    /\ \E entity \in IdEntities :
          call' = Applied("entity_identifier", <<entity>>, entity_identifier(entity))
    /\ UNCHANGED <<run, procs, inode, dashboard>>

\* event kinds: with a database variable of their own, and without
RoutedKinds == {"issues", "pull_request", "discussion", "deployment"}

\* every variable is unset, set to the empty string, or set to an id
RoutingEnvs ==
    { [k \in ks |-> IF k \in es THEN ""
                    ELSE IF k = "NOTION_ISSUE_DATABASE_ID" THEN "dbIssues"
                    ELSE IF k = "NOTION_PULL_REQUEST_DATABASE_ID" THEN "dbPulls"
                    ELSE "dbDefault"] :
      ks \in SUBSET {"NOTION_ISSUE_DATABASE_ID", "NOTION_PULL_REQUEST_DATABASE_ID",
                     DEFAULT_DATABASE_ENV},
      es \in SUBSET {"NOTION_ISSUE_DATABASE_ID", "NOTION_PULL_REQUEST_DATABASE_ID",
                     DEFAULT_DATABASE_ENV} }

Apply_ensure_database_id ==
    /\ \E event_type \in RoutedKinds, e \in RoutingEnvs :
          call' = Applied("ensure_database_id", <<event_type, e>>,
                          ensure_database_id(event_type, e))
    /\ UNCHANGED <<run, procs, inode, dashboard>>

Apply_build_common_properties ==
    /\ \E title \in {NoneV, "s", "sBug"},
          url \in {NoneV, "shttps://github.com/o/r/issues/1"},
          state \in {NoneV, "s", "sopen", "sclosed"}, updated_at \in {NoneV, "s2024-01-01"},
          number \in {NoneV, "i0", "i2"} :
          call' = Applied("build_common_properties",
                          <<title, url, state, updated_at, NoneV, "sIssue", number>>,
                          build_common_properties(title, url, state, updated_at, NoneV,
                                                  "sIssue", number))
    /\ UNCHANGED <<run, procs, inode, dashboard>>

\* mappings of string keys to string ids, some needing escapes in JSON
CacheKeys == {"issues:1", "pull_request:1", "issues:a\"b"}

CacheIds == {"pg1", "pg\\2", ""}

CacheMappings ==
    UNION { [ks -> CacheIds] : ks \in { x \in SUBSET CacheKeys : Cardinality(x) <= MaxEntries } }

\* atomic_write_json(data, path) followed by load_mappings(path): the dump
\* goes to the sibling, which then takes the place of the file
Apply_write_then_load ==
    /\ \E data \in CacheMappings :
          LET written == json_dump(data)
          IN  call' = Applied("write_then_load", <<data>>,
                              [raised |-> load_mappings_raises(written),
                               text   |-> written,
                               value  |-> load_mappings(written)])
    /\ UNCHANGED <<run, procs, inode, dashboard>>

\* texts of a few characters and texts as long as the limit, or nearly
TextLengths == {0, 1, 4} \cup ((RichTextLimit - MaxExcess)..(RichTextLimit + MaxExcess))

Texts == { [i \in 1..n |-> c] : n \in TextLengths, c \in {"a", "."} }

Apply_notion_rich_text ==
    /\ \E content \in Texts :
          call' = Applied("notion_rich_text", <<content>>, notion_rich_text(content))
    /\ UNCHANGED <<run, procs, inode, dashboard>>

InitPure ==
    /\ NoRun
    /\ call = NoCall
    /\ procs = <<>>
    /\ inode = NoInodes
    /\ NoDashboard

NextPure ==
    \/ Apply_entity_identifier
    \/ Apply_ensure_database_id
    \/ Apply_build_common_properties
    \/ Apply_write_then_load
    \/ Apply_notion_rich_text

SpecPure == InitPure /\ [][NextPure]_vars

\* ========================================================================
\* Several runs of main on the same cache file, one after the other or at
\* the same time.  Every run has its own context (cache, events, position);
\* the runs share the file, its sibling path and the remote store.  The
\* payloads are valid and their events have handlers.

NumRuns == 3             \* runs that share the cache file
MaxRunBatch == 2         \* longest payload array of a run, the runs being one after the other
MaxConcurrentBatch == 1  \* longest payload array of a run, the runs being at the same time
MaxOverlap == 2          \* runs that are going on at the same time

Runs == 1..NumRuns

RunEntries == { Event("issues", Entity("i1", "ok")), Event("issues", Entity("i2", "ok")) }

RunBatches(longest) == UNION { [1..n -> RunEntries] : n \in 1..longest }

RunEnv == [k \in {"NOTION_ISSUE_DATABASE_ID"} |-> "dbIssues"]

RunInitialFiles ==
    { NoFile,
      [exists |-> TRUE, complete |-> TRUE, utf8 |-> TRUE,
       pairs |-> <<(<<"issues:1", "">>)>>] }

\* a run that has not started
NotStarted ==
    [pc |-> "idle", mappings |-> EmptyMap, events |-> <<>>, idx |-> 0, fd |-> 0,
     rec |-> 0, prior |-> {}]

Exited == { q \in Runs : procs[q].pc = "exited" }

\* main of run p: the payload is valid, load_mappings(), dispatch begins.
\* The runs are numbered in the order they start.
RunBegin(p, batches) ==
    /\ procs[p].pc = "idle"
    /\ \A q \in Runs : q < p => procs[q].pc # "idle"
    /\ ~load_mappings_raises(file)
    /\ \E b \in batches :
          procs' = [procs EXCEPT ![p] =
                       [pc |-> "dispatch", mappings |-> load_mappings(file),
                        events |-> Classified(b, NoneV), idx |-> 1, fd |-> 0,
                        rec |-> 0, prior |-> Exited]]
    /\ UNCHANGED <<run, call, inode, dashboard>>

\* run p starts while other runs may be going on
RunStart(p) ==
    /\ Cardinality({ q \in Runs : procs[q].pc \notin {"idle", "exited"} }) < MaxOverlap
    /\ RunBegin(p, RunBatches(MaxConcurrentBatch))

\* run p starts while no other run is going on
RunStartAlone(p) ==
    /\ \A q \in Runs : procs[q].pc \in {"idle", "exited"}
    /\ RunBegin(p, RunBatches(MaxRunBatch))

\* the record of one event of run p
RunRecord(p, r, outcome, fresh) ==
    [proc |-> p, prior |-> procs[p].prior,
     status |-> r.status, changed |-> r.changed, notion_id |-> r.notion_id,
     raised |-> r.raised, calls |-> r.calls, args |-> r.args,
     before |-> procs[p].mappings, after |-> r.mappings,
     outcome |-> outcome, fresh |-> fresh, durable |-> file,
     persist |-> IF r.changed THEN "begun" ELSE "none", installed |-> NoFile]

\* dispatch_events of run p: changed = handler(payload, context)
RunHandle(p) ==
    /\ procs[p].pc = "dispatch"
    /\ procs[p].idx <= Len(procs[p].events)
    /\ \E outcome \in RemoteOutcomes :
          LET ev    == procs[p].events[procs[p].idx]
              fresh == PageId(Cardinality(Created) + 1)
              r     == CallHandler(EVENT_HANDLERS[ev.event_type], ev,
                                   procs[p].mappings, env, outcome, fresh)
          IN  /\ r.status \in {"noid", "raised", "unroutable"} => outcome = "ok"
              /\ r.status \in {"updated"} => outcome # "noid"
              /\ calls' = calls \o r.calls
              /\ hist' = Append(hist, RunRecord(p, r, outcome,
                     IF r.calls # <<>> /\ r.calls[1].op = "create" /\ outcome = "ok"
                     THEN fresh ELSE NoneV))
              /\ procs' = [procs EXCEPT
                     ![p].mappings = r.mappings,
                     ![p].rec = Len(hist) + 1,
                     ![p].pc = IF r.changed THEN "write_open" ELSE "dispatch",
                     ![p].idx = IF r.changed THEN @ ELSE @ + 1]
    /\ UNCHANGED <<file, tmp, env, pc, input, events, idx, mappings, loaded, exit_code,
                   call, inode, dashboard>>

\* atomic_write_json of run p: temp_path.open("w") creates the sibling, or
\* truncates the one another run has created and not yet renamed
RunWriteOpen(p) ==
    /\ procs[p].pc = "write_open"
    /\ tmp' = TruncatedFile
    /\ inode' = IF tmp.exists
                THEN [inode EXCEPT !.written = @ \ {inode.tmp}]
                ELSE [inode EXCEPT !.tmp = inode.next, !.next = @ + 1]
    /\ procs' = [procs EXCEPT ![p].pc = "write_dump",
                              ![p].fd = IF tmp.exists THEN inode.tmp ELSE inode.next]
    /\ UNCHANGED <<file, env, pc, input, events, idx, mappings, loaded, calls, hist,
                   exit_code, call, dashboard>>

\* The text a dump leaves in a file object.  A file object that holds the
\* text of another writer is overwritten from its start: the result is the
\* new text when that is at least as long, and otherwise the new text
\* followed by the rest of the old one, which json.load rejects.  The model
\* does not keep the lengths: both results are possible.
Dumped(id, new) ==
    IF id \in inode.written THEN {new, [new EXCEPT !.complete = FALSE]} ELSE {new}

\* atomic_write_json of run p: json.dump, flush, fsync, close.  The text
\* goes to the file object run p has opened, whatever path names it by now.
RunWriteDump(p) ==
    /\ procs[p].pc = "write_dump"
    /\ \E text \in Dumped(procs[p].fd, json_dump(procs[p].mappings)) :
          /\ tmp' = IF procs[p].fd = inode.tmp THEN text ELSE tmp
          /\ file' = IF procs[p].fd = inode.file THEN text ELSE file
    /\ inode' = [inode EXCEPT !.written = @ \cup {procs[p].fd}]
    /\ procs' = [procs EXCEPT ![p].pc = "write_replace"]
    /\ UNCHANGED <<env, pc, input, events, idx, mappings, loaded, calls, hist,
                   exit_code, call, dashboard>>

\* a write whose sibling takes the place of the file only after the entries
\* the file holds have been added to it
RunWriteReplace_Merging(p) ==
    /\ procs[p].pc = "write_replace"
    /\ file' = IF tmp.exists /\ tmp.complete
               THEN json_dump([k \in DOMAIN load_mappings(file) \cup DOMAIN load_mappings(tmp) |->
                                 IF k \in DOMAIN load_mappings(tmp)
                                 THEN load_mappings(tmp)[k] ELSE load_mappings(file)[k]])
               ELSE file
    /\ tmp' = NoFile
    /\ inode' = IF tmp.exists THEN [inode EXCEPT !.file = inode.tmp, !.tmp = 0] ELSE inode
    /\ hist' = [hist EXCEPT ![procs[p].rec].persist = IF tmp.exists THEN "ok" ELSE "failed",
                            ![procs[p].rec].installed = tmp]
    /\ procs' = [procs EXCEPT ![p].pc = "dispatch", ![p].idx = @ + 1]
    /\ UNCHANGED <<env, pc, input, events, idx, mappings, loaded, calls, exit_code, call,
                   dashboard>>

\* atomic_write_json of run p: temp_path.replace(path).  When another run
\* has renamed the sibling away, replace raises FileNotFoundError, which
\* dispatch_events catches and logs.
RunWriteReplace(p) ==
    /\ procs[p].pc = "write_replace"
    /\ file' = IF tmp.exists THEN tmp ELSE file
    /\ tmp' = NoFile
    /\ inode' = IF tmp.exists THEN [inode EXCEPT !.file = inode.tmp, !.tmp = 0] ELSE inode
    /\ hist' = [hist EXCEPT ![procs[p].rec].persist = IF tmp.exists THEN "ok" ELSE "failed",
                            ![procs[p].rec].installed = tmp]
    /\ procs' = [procs EXCEPT ![p].pc = "dispatch", ![p].idx = @ + 1]
    /\ UNCHANGED <<env, pc, input, events, idx, mappings, loaded, calls, exit_code, call,
                   dashboard>>

\* the loop of run p is over: main returns 0
RunDone(p) ==
    /\ procs[p].pc = "dispatch"
    /\ procs[p].idx > Len(procs[p].events)
    /\ procs' = [procs EXCEPT ![p].pc = "exited"]
    /\ UNCHANGED <<run, call, inode, dashboard>>

InitRuns ==
    /\ file \in RunInitialFiles
    /\ tmp = NoFile
    /\ env = RunEnv
    /\ pc = "off"
    /\ input = Input(TRUE, "array", 0, 0)
    /\ events = <<>>
    /\ idx = 0
    /\ mappings = EmptyMap
    /\ loaded = load_mappings(file)
    /\ calls = <<>>
    /\ hist = <<>>
    /\ exit_code = -1
    /\ call = NoCall
    /\ procs = [p \in Runs |-> NotStarted]
    /\ inode = [file |-> IF file.exists THEN 1 ELSE 0, tmp |-> 0, next |-> 2, written |-> {}]
    /\ NoDashboard

\* runs one after the other
NextRuns ==
    \/ \E p \in Runs : RunStartAlone(p)
    \/ \E p \in Runs : RunHandle(p)
    \/ \E p \in Runs : RunWriteOpen(p)
    \/ \E p \in Runs : RunWriteDump(p)
    \/ \E p \in Runs : RunWriteReplace(p)
    \/ \E p \in Runs : RunDone(p)

SpecRuns == InitRuns /\ [][NextRuns]_vars

\* runs at the same time
NextConcurrent ==
    \/ \E p \in Runs : RunStart(p)
    \/ \E p \in Runs : RunHandle(p)
    \/ \E p \in Runs : RunWriteOpen(p)
    \/ \E p \in Runs : RunWriteDump(p)
    \/ \E p \in Runs : RunWriteReplace(p)
    \/ \E p \in Runs : RunDone(p)

SpecConcurrent == InitRuns /\ [][NextConcurrent]_vars

\* ========================================================================
\* The dashboard (dashboard/dashboard_api.py): workflows that requests
\* start, pause, resume and stop, and the log feed a client polls

MaxTicks == 2    \* ticks the clock advances after the dashboard is constructed
MaxActions == 2  \* accepted actions, each of which appends one log event

WorkflowStatus == {"idle", "running", "paused", "failed", "completed"}

WorkflowAction == {"start", "pause", "resume", "stop"}

Workflow(status, runs, last_run) ==
    [status |-> status, runs |-> runs, last_run |-> last_run]

LogEvent(workflow_id, level, message, timestamp) ==
    [workflow_id |-> workflow_id, level |-> level, message |-> message,
     timestamp |-> timestamp]

\* datetime.now when the dashboard is constructed, in ticks of the clock
\* since the epoch: a positive number
BootTime == 1

\* the ids a request may name: the three workflows and one that does not exist
RequestedIds == {"data_ingest", "model_train", "report_gen", "unknown"}

\* _bootstrap_sample_data: three workflows and four log events, all stamped
\* with the one reading of the clock
_bootstrap_sample_data ==
    /\ clock = BootTime
    /\ workflows =
         [id \in {"data_ingest", "model_train", "report_gen"} |->
            CASE id = "data_ingest" -> Workflow("running", 12, BootTime)
              [] id = "model_train" -> Workflow("idle", 5, BootTime)
              [] id = "report_gen" -> Workflow("paused", 30, BootTime)]
    /\ log_feed =
         << LogEvent("data_ingest", "INFO", "Ingestion pipeline started", BootTime),
            LogEvent("data_ingest", "INFO", "Received 10k records", BootTime),
            LogEvent("model_train", "WARNING", "Model accuracy below threshold", BootTime),
            LogEvent("report_gen", "INFO", "Report generator paused awaiting approval",
                     BootTime) >>

\* an HTTPException raised before the workflow was touched
Rejected(workflow) ==
    [status_code |-> 400, workflow |-> workflow, message |-> NoneV]

Accepted(workflow, message) ==
    [status_code |-> 200, workflow |-> workflow, message |-> message]

\* a variant that counts the run before it looks at the status
_apply_action_CountsFirst(workflow, action, now) ==
    CASE action = "start" ->
           IF workflow.status = "running"
           THEN Rejected([workflow EXCEPT !.runs = @ + 1])
           ELSE Accepted([workflow EXCEPT !.status = "running", !.runs = @ + 1,
                                          !.last_run = now], "Workflow started")
      [] action = "resume" ->
           IF workflow.status \notin {"paused", "failed"}
           THEN Rejected(workflow)
           ELSE Accepted([workflow EXCEPT !.status = "running"], "Workflow resumed")
      [] action = "pause" ->
           IF workflow.status # "running"
           THEN Rejected(workflow)
           ELSE Accepted([workflow EXCEPT !.status = "paused"], "Workflow paused")
      [] action = "stop" ->
           IF workflow.status \in {"idle", "completed"}
           THEN Rejected(workflow)
           ELSE Accepted([workflow EXCEPT !.status = "completed"], "Workflow stopped")

\* _apply_action: the status code of the answer, the workflow as the call
\* leaves it, and the message of the log event (None when the call raised)
_apply_action(workflow, action, now) ==
    CASE action = "start" ->
           IF workflow.status = "running"
           THEN Rejected(workflow)
           ELSE Accepted([workflow EXCEPT !.status = "running", !.runs = @ + 1,
                                          !.last_run = now], "Workflow started")
      [] action = "resume" ->
           IF workflow.status \notin {"paused", "failed"}
           THEN Rejected(workflow)
           ELSE Accepted([workflow EXCEPT !.status = "running"], "Workflow resumed")
      [] action = "pause" ->
           IF workflow.status # "running"
           THEN Rejected(workflow)
           ELSE Accepted([workflow EXCEPT !.status = "paused"], "Workflow paused")
      [] action = "stop" ->
           IF workflow.status \in {"idle", "completed"}
           THEN Rejected(workflow)
           ELSE Accepted([workflow EXCEPT !.status = "completed"], "Workflow stopped")

Reply(workflow_id, action, status_code) ==
    [workflow_id |-> workflow_id, action |-> action, status_code |-> status_code,
     workflows |-> workflows, log_feed |-> log_feed]

\* POST /api/workflows/{workflow_id}/actions. _require_workflow answers 404
\* for an id that is not there, before the clock is read; otherwise
\* _apply_action reads the clock, which never runs backwards, and either
\* raises or changes the workflow and appends one log event
orchestrate_workflow ==
    \E workflow_id \in RequestedIds, action \in WorkflowAction, now \in clock..(clock + 1) :
        /\ DOMAIN workflows # {}
        /\ IF workflow_id \notin DOMAIN workflows
           THEN /\ reply' = Reply(workflow_id, action, 404)
                /\ UNCHANGED <<workflows, log_feed, clock>>
           ELSE LET r == _apply_action(workflows[workflow_id], action, now) IN
                /\ now <= BootTime + MaxTicks
                /\ r.message # NoneV => Len(log_feed) < 4 + MaxActions
                /\ workflows' = [workflows EXCEPT ![workflow_id] = r.workflow]
                /\ log_feed' =
                     IF r.message # NoneV
                     THEN Append(log_feed, LogEvent(workflow_id, "INFO", r.message, now))
                     ELSE log_feed
                /\ clock' = now
                /\ reply' = Reply(workflow_id, action, r.status_code)
        /\ UNCHANGED <<client, run, call, procs, inode>>

\* GET /api/status/live: the events stamped after since, given here by their
\* positions in the feed so that two events with the same fields stay two,
\* and the marker for the next poll
live_status_feed(since) ==
    [events |-> { i \in 1..Len(log_feed) : log_feed[i].timestamp > since },
     nextSince |-> IF log_feed # <<>> THEN log_feed[Len(log_feed)].timestamp ELSE since]

\* how many times the client has received the event at position i
Received(i) == IF i <= Len(client.received) THEN client.received[i] ELSE 0

\* the client polls with the marker of its previous poll, 0 the first time,
\* and keeps count of what it receives
Poll ==
    /\ DOMAIN workflows # {}
    /\ LET r == live_status_feed(client.since) IN
       client' = [since |-> r.nextSince,
                  received |-> [i \in 1..Len(log_feed) |->
                                  Received(i) + IF i \in r.events THEN 1 ELSE 0]]
    /\ UNCHANGED <<workflows, log_feed, clock, reply, run, call, procs, inode>>

InitDashboard ==
    /\ NoRun
    /\ call = NoCall
    /\ procs = <<>>
    /\ inode = NoInodes
    /\ _bootstrap_sample_data
    /\ client = NoClient
    /\ reply = NoReply

NextDashboard ==
    \/ orchestrate_workflow
    \/ Poll

SpecDashboard == InitDashboard /\ [][NextDashboard]_vars

\* ========================================================================
\* Properties

Last == hist[Len(hist)]

Terminated == pc \in {"exited", "raised"}

\* the cache key 'kind:source_id' of the upsert_page call of a record
KeyOf(h) == h.args.event_type \o ":" \o PyStr(h.args.github_id)

\* the destination configured for a kind: the kind's own when set, else the default
Configured(e, name) == name \in DOMAIN e /\ e[name] \notin {"", NoneV}

Destination(kind, e) ==
    LET own == CASE kind = "issues"       -> "NOTION_ISSUE_DATABASE_ID"
                 [] kind = "pull_request" -> "NOTION_PULL_REQUEST_DATABASE_ID"
                 [] kind = "discussion"   -> "NOTION_DISCUSSION_DATABASE_ID"
                 [] kind = "project"      -> "NOTION_PROJECT_DATABASE_ID"
                 [] OTHER                 -> "NOTION_WORKFLOW_DATABASE_ID"
    IN  IF Configured(e, own) THEN e[own]
        ELSE IF Configured(e, "NOTION_DEFAULT_DATABASE_ID")
        THEN e["NOTION_DEFAULT_DATABASE_ID"] ELSE NoneV

Routable(h) == Destination(h.args.event_type, env) # NoneV

\* ------------------------------------------------------------------------
\* C1.  The same event dispatched twice in a row, for an entity the cache
\* has no entry for, with a routable kind and both remote calls succeeding
\* (the create answering with a page id): the two dispatches make exactly
\* one create followed by one update of the page the create returned, and
\* the cache is no larger after the second dispatch than after the first.
C1_Case(i) ==
    /\ i + 1 <= Len(hist)
    /\ events[i] = events[i + 1]
    /\ hist[i].args.called /\ hist[i + 1].args.called
    /\ Routable(hist[i])
    /\ KeyOf(hist[i]) \notin DOMAIN hist[i].before
    /\ hist[i].outcome = "ok" /\ hist[i + 1].outcome = "ok"

C1_Idempotence ==
    \A i \in 1..Len(hist) :
        C1_Case(i) =>
            LET both == hist[i].calls \o hist[i + 1].calls
            IN  /\ Len(both) = 2
                /\ both[1].op = "create"
                /\ both[2].op = "update"
                /\ both[2].target = hist[i].fresh
                /\ hist[i].fresh # NoneV
                /\ Cardinality(DOMAIN hist[i + 1].after) = Cardinality(DOMAIN hist[i].after)

C1_Witness == \E i \in 1..Len(hist) : C1_Case(i) /\ hist[i + 1].status = "updated"

\* ------------------------------------------------------------------------
\* C2.  Whenever processing of an event begins, the durable cache file
\* holds every entry that earlier events of the batch added to the
\* in-memory cache.
C2_EarlierEntriesDurable ==
    AtEvent =>
        \A i \in Created :
            MapGet(load_mappings(file), KeyOf(hist[i])) = hist[i].fresh

\* ------------------------------------------------------------------------
\* C3.  A crash inside atomic_write_json before the rename has completed
\* leaves the canonical file as it was when the write began: a load after
\* the crash returns the mapping that was durable before, and the file is
\* not a truncated text the write produced.
InterruptedWrite == pc = "crashed" /\ Len(hist) > 0 /\ Last.persist = "begun"

C3_AtomicPersistence ==
    InterruptedWrite =>
        /\ load_mappings(file) = load_mappings(Last.durable)
        /\ (file.exists /\ ~file.complete) => file = Last.durable

C3_Witness ==
    /\ InterruptedWrite
    /\ tmp.exists
    /\ load_mappings(file) # mappings
    /\ DOMAIN load_mappings(file) # {}

\* ------------------------------------------------------------------------
\* C4.  When the handler of some event k of the batch has raised, every
\* other event of the batch that has a handler still has its handler
\* invoked, before and after k, and its successful create is in the cache.
HasHandler(i) == events[i].event_type \in DOMAIN EVENT_HANDLERS

C4_BatchResilience ==
    (Terminated /\ \E k \in 1..Len(hist) : hist[k].status = "raised") =>
        \A i \in 1..Len(events) :
            HasHandler(i) =>
                /\ i <= Len(hist)
                /\ hist[i].status = "created" =>
                       MapGet(mappings, KeyOf(hist[i])) = hist[i].fresh

\* ------------------------------------------------------------------------
\* C5 as stated.  Whenever the key is present in the cache, whatever is
\* stored under it, upsert_page calls update with the stored id, makes no
\* create call, returns (False, stored id) and leaves the cache unchanged.
UpdatesStored(h) ==
    /\ Len(h.calls) = 1
    /\ h.calls[1].op = "update"
    /\ h.calls[1].target = h.before[KeyOf(h)]
    /\ h.calls[1].properties = h.args.properties
    /\ ~h.changed
    /\ h.notion_id = h.before[KeyOf(h)]
    /\ h.after = h.before

C5_KnownEntityUpdated_AnyValue ==
    \A i \in 1..Len(hist) :
        (hist[i].args.called /\ KeyOf(hist[i]) \in DOMAIN hist[i].before) =>
            UpdatesStored(hist[i])

\* C5 as amended.  Whenever the kind is routable and a non-empty remote id
\* is stored under the key, upsert_page calls update with the stored id and
\* the new properties, makes no create call, returns (False, stored id) and
\* leaves the cache unchanged.
C5_Case(h) ==
    /\ h.args.called
    /\ Routable(h)
    /\ KeyOf(h) \in DOMAIN h.before
    /\ h.before[KeyOf(h)] \notin {"", NoneV}

C5_KnownEntityUpdated ==
    \A i \in 1..Len(hist) : C5_Case(hist[i]) => UpdatesStored(hist[i])

C5_Witness ==
    \E i \in 1..Len(hist) :
        C5_Case(hist[i]) /\ hist[i].outcome = "ok" /\ KeyOf(hist[i]) \in DOMAIN loaded

\* ------------------------------------------------------------------------
\* C6.  For a routable kind whose key is absent from the cache, upsert_page
\* makes exactly one call, a create against the destination of the kind;
\* when the create answers with an id, that id is stored under exactly the
\* key 'kind:source_id' and the result is (True, that id).
C6_Case(h) ==
    /\ h.args.called
    /\ Routable(h)
    /\ KeyOf(h) \notin DOMAIN h.before

C6_UnknownEntityCreated ==
    \A i \in 1..Len(hist) :
        C6_Case(hist[i]) =>
            /\ Len(hist[i].calls) = 1
            /\ hist[i].calls[1].op = "create"
            /\ hist[i].calls[1].target = Destination(hist[i].args.event_type, env)
            /\ hist[i].outcome = "ok" =>
                   /\ hist[i].fresh # NoneV
                   /\ hist[i].after = MapPut(hist[i].before, KeyOf(hist[i]), hist[i].fresh)
                   /\ hist[i].changed
                   /\ hist[i].notion_id = hist[i].fresh

C6_Witness ==
    \E i \in 2..Len(hist) :
        /\ C6_Case(hist[i])
        /\ hist[i].outcome = "ok"
        /\ hist[i].calls[1].target = "dbDefault"
        /\ DOMAIN hist[i].before # {}

\* ------------------------------------------------------------------------
\* C7.  An exception of the remote create or update call does not leave
\* upsert_page: the handler returns changed = False and the cache is as it
\* was before the call.
C7_Case(h) == h.calls # <<>> /\ h.outcome = "raise"

C7_RemoteFailureNoChange ==
    \A i \in 1..Len(hist) :
        C7_Case(hist[i]) =>
            /\ ~hist[i].raised
            /\ ~hist[i].changed
            /\ hist[i].after = hist[i].before
            /\ i = Len(hist) =>
                   /\ mappings = hist[i].before
                   /\ pc \in {"dispatch", "exited", "crashed"}

C7_Witness ==
    \E i, j \in 1..Len(hist) :
        /\ C7_Case(hist[i]) /\ hist[i].calls[1].op = "create"
        /\ C7_Case(hist[j]) /\ hist[j].calls[1].op = "update"

\* ------------------------------------------------------------------------
\* C8.  Every remote id in the in-memory cache and in the durable file was
\* in the persisted state when the run started or is the id a successful
\* create of this run returned for that same key.
Provenance(k, id) ==
    \/ (k \in DOMAIN loaded /\ loaded[k] = id)
    \/ \E i \in 1..Len(hist) :
          /\ hist[i].calls # <<>>
          /\ hist[i].calls[1].op = "create"
          /\ hist[i].outcome = "ok"
          /\ KeyOf(hist[i]) = k
          /\ hist[i].fresh = id

C8_Provenance ==
    /\ \A k \in DOMAIN mappings : Provenance(k, mappings[k])
    /\ \A k \in DOMAIN load_mappings(file) : Provenance(k, load_mappings(file)[k])
    /\ tmp.complete => \A k \in DOMAIN load_mappings(tmp) : Provenance(k, load_mappings(tmp)[k])

C8_Witness ==
    /\ \E k \in DOMAIN load_mappings(file) : k \notin DOMAIN loaded
    /\ \E k \in DOMAIN load_mappings(file) : k \in DOMAIN loaded
    /\ \E i \in 1..Len(hist) : hist[i].status \in {"create_failed", "create_noid", "unroutable"}

\* ------------------------------------------------------------------------
\* C9.  A missing token, a payload that cannot be loaded, a payload that is
\* neither object nor array, or an array with an entry that is no object or
\* has no event type while no default is given: main returns non-zero, and
\* no remote call and no cache write occurs, also for valid entries that
\* precede the invalid one.
FatalInput ==
    \/ ~input.token
    \/ input.shape \in {"unloadable", "scalar"}
    \/ input.bad # 0

C9_FatalBeforeDispatch ==
    (pc # "start" /\ FatalInput) =>
        /\ pc = "exited"
        /\ exit_code = 1
        /\ calls = <<>>
        /\ hist = <<>>
        /\ tmp = NoFile
        /\ load_mappings(file) = loaded

C9_Witness ==
    /\ pc = "exited"
    /\ input.shape = "array"
    /\ input.bad = 3
    /\ exit_code = 1

\* ------------------------------------------------------------------------
\* C10.  Once dispatch has started, the process ends with exit code 0
\* whatever happens to the single events.
C10_ExitCodeZero == (Terminated /\ idx >= 1) => exit_code = 0

\* ------------------------------------------------------------------------
\* C11.  When neither the destination of the kind nor the default one is
\* configured, upsert_page returns (False, None), makes no remote call and
\* leaves the cache alone, and dispatch_events goes on to the next event.
C11_Case(h) == h.args.called /\ ~Routable(h)

C11_UnroutableSkipped ==
    \A i \in 1..Len(hist) :
        C11_Case(hist[i]) =>
            /\ hist[i].calls = <<>>
            /\ ~hist[i].changed
            /\ hist[i].notion_id = NoneV
            /\ ~hist[i].raised
            /\ hist[i].after = hist[i].before
            /\ i = Len(hist) =>
                   /\ pc \in {"dispatch", "exited", "crashed"}
                   /\ idx = i + 1
                   /\ mappings = hist[i].before

C11_Witness ==
    \E i \in 1..Len(hist) :
        /\ C11_Case(hist[i])
        /\ KeyOf(hist[i]) \in DOMAIN hist[i].before
        /\ i < Len(hist)
        /\ hist[i + 1].status = "updated"

\* ------------------------------------------------------------------------
\* C13.  Events are handled in the order of the input sequence, the remote
\* calls of an event coming before those of the next; an event whose kind
\* has no registered handler makes no remote call and no cache change, and
\* every later event is still processed.
RECURSIVE CallsUpTo(_)
CallsUpTo(n) == IF n = 0 THEN <<>> ELSE CallsUpTo(n - 1) \o hist[n].calls

HandlerOf(i) == EVENT_HANDLERS[events[i].event_type]

InArrivalOrder ==
    /\ calls = CallsUpTo(Len(hist))
    /\ Len(hist) <= Len(events)
    /\ \A i \in 1..Len(hist) :
          /\ hist[i].args.called =>
                /\ HasHandler(i)
                /\ hist[i].args.github_id = entity_identifier(events[i].entity)
                /\ hist[i].args.event_type =
                      (IF HandlerOf(i) = "handle_issues" THEN "issues" ELSE "pull_request")
          /\ hist[i].calls # <<>> => hist[i].args.called

C13_InOrderAndComplete ==
    /\ InArrivalOrder
    /\ Terminated =>
          \A i \in 1..Len(events) :
              ~HasHandler(i) =>
                  /\ \A j \in i..Len(events) : j <= Len(hist)
                  /\ hist[i].calls = <<>>
                  /\ hist[i].after = hist[i].before

\* ------------------------------------------------------------------------
\* C15.  An event whose entity has none of the four identifiers: its
\* handler returns "no change" without raising, makes no remote call,
\* changes neither the cache nor the durable file, and the later events of
\* the batch that have a handler are processed.
NoIdentifier(i) ==
    /\ HasHandler(i)
    /\ events[i].entity.node_id = NoneV
    /\ events[i].entity.id = NoneV
    /\ events[i].entity.number = NoneV
    /\ events[i].entity.name = NoneV

Unprocessable(h) ==
    /\ ~h.raised
    /\ ~h.changed
    /\ h.calls = <<>>
    /\ h.after = h.before
    /\ h.persist = "none"

C15_NoIdentifierNoChange ==
    \A i \in 1..Len(hist) :
        NoIdentifier(i) =>
            /\ Unprocessable(hist[i])
            /\ i = Len(hist) => (mappings = hist[i].before /\ file = hist[i].durable)

C15_NoIdentifierSkipped ==
    /\ C15_NoIdentifierNoChange
    /\ Terminated =>
          \A i \in 1..Len(hist) :
              NoIdentifier(i) =>
                  \A j \in (i + 1)..Len(events) : HasHandler(j) => j <= Len(hist)

\* ------------------------------------------------------------------------
\* C18.  Cold start: when the cache file does not exist or its content
\* cannot be parsed, load_mappings returns an empty mapping without
\* raising, and the run goes on to dispatch with an empty cache.

\* main has passed its fatal checks and called load_mappings()
ReachedLoad ==
    /\ pc # "start"
    /\ input.token
    /\ input.shape \in {"array", "object"}
    /\ input.bad = 0

Unparsable(f) == f.exists /\ (~f.complete \/ ~f.utf8)

\* no event has been handled yet: the file is the one the run found
ColdStart == hist = <<>> /\ (~file.exists \/ Unparsable(file))

C18_ColdStartEmptyCache ==
    (ReachedLoad /\ ColdStart) =>
        /\ pc # "raised"
        /\ idx >= 1
        /\ mappings = EmptyMap

\* the claim holds for a missing file and for a text that is not JSON
C18_ColdStartDecodable ==
    (ReachedLoad /\ ColdStart /\ file.utf8) =>
        /\ pc # "raised"
        /\ idx >= 1
        /\ mappings = EmptyMap

\* ------------------------------------------------------------------------
\* C14.  entity_identifier returns the first present (non-null) value in
\* the order node_id, id, number, name, and None only when all four are
\* absent; an id of 0 and an empty name count as present.
FirstPresent(entity) ==
    IF entity.node_id # NoneV THEN entity.node_id
    ELSE IF entity.id # NoneV THEN entity.id
    ELSE IF entity.number # NoneV THEN entity.number
    ELSE entity.name

C14_FirstPresentIdentifier ==
    call.fn = "entity_identifier" =>
        /\ call.result = FirstPresent(call.args[1])
        /\ call.result = NoneV =>
               /\ call.args[1].node_id = NoneV
               /\ call.args[1].id = NoneV
               /\ call.args[1].number = NoneV
               /\ call.args[1].name = NoneV

\* what holds instead: the first truthy value wins, and when there is none
\* the result is the name
C14_FirstTruthyIdentifier ==
    call.fn = "entity_identifier" =>
        LET entity == call.args[1]
        IN  call.result =
                (IF Truthy(entity.node_id) THEN entity.node_id
                 ELSE IF Truthy(entity.id) THEN entity.id
                 ELSE IF Truthy(entity.number) THEN entity.number
                 ELSE entity.name)

\* ------------------------------------------------------------------------
\* C17.  Round trip of the cache: for every mapping of string keys to string
\* ids, atomic_write_json followed by load_mappings on the same path
\* returns, without raising, a mapping equal to the one written.
C17_RoundTrip ==
    call.fn = "write_then_load" =>
        /\ ~call.result.raised
        /\ call.result.value = call.args[1]

\* a mapping of two entries whose strings are not written as they are
C17_Witness ==
    /\ call.fn = "write_then_load"
    /\ Cardinality(DOMAIN call.args[1]) >= 2
    /\ "issues:a\"b" \in DOMAIN call.args[1]
    /\ call.args[1]["issues:a\"b"] = "pg\\2"
    /\ \E i \in 1..Len(call.result.text.pairs) :
          call.result.text.pairs[i] = <<"issues:a\\\"b", "pg\\\\2">>
    /\ call.result.value = call.args[1]

\* ------------------------------------------------------------------------
\* C19.  Routing resolution: the destination of a kind is the kind's own
\* database when one is configured (non-empty), otherwise the default
\* database when one is configured, otherwise none: the kind is unroutable.
OwnVariable(kind) ==
    IF kind \in DOMAIN DATABASE_ENV_VARS THEN DATABASE_ENV_VARS[kind] ELSE NoneV

C19_RoutingResolution ==
    call.fn = "ensure_database_id" =>
        LET kind == call.args[1]
            e    == call.args[2]
            own  == OwnVariable(kind)
        IN  IF own # NoneV /\ Configured(e, own) THEN call.result = e[own]
            ELSE IF Configured(e, DEFAULT_DATABASE_ENV)
            THEN call.result = e[DEFAULT_DATABASE_ENV]
            ELSE ~Truthy(call.result)

\* the kind's own variable is set but empty, and the default is used
C19_Witness ==
    /\ call.fn = "ensure_database_id"
    /\ call.args[1] = "pull_request"
    /\ MapGet(call.args[2], "NOTION_PULL_REQUEST_DATABASE_ID") = ""
    /\ MapGet(call.args[2], "NOTION_ISSUE_DATABASE_ID") = "dbIssues"
    /\ call.result = "dbDefault"

\* ------------------------------------------------------------------------
\* C20.  State normalisation: the properties hold a State whose value is
\* the title-cased state when the state is truthy and "Unknown" when the
\* state is present but falsy; State is left out only when the state is
\* absent.
C20_StateNormalised ==
    call.fn = "build_common_properties" =>
        LET state == call.args[3]
            props == call.result
        IN  /\ Truthy(state) => MapGet(props, "State") = PyTitle(state)
            /\ (state # NoneV /\ ~Truthy(state)) => MapGet(props, "State") = "sUnknown"
            /\ "State" \notin DOMAIN props => state = NoneV

\* what holds instead: State is the title-cased state when the state is
\* truthy and is left out otherwise
C20_StateOfTruthy ==
    call.fn = "build_common_properties" =>
        LET state == call.args[3]
            props == call.result
        IN  IF Truthy(state) THEN MapGet(props, "State") = PyTitle(state)
            ELSE "State" \notin DOMAIN props

\* ------------------------------------------------------------------------
\* C12.  No negative caching of failures: after a create call for a key
\* fails or returns no id, the cache holds no entry for that key, and the
\* next dispatch of the same event, in the same run or in a later run, calls
\* create again and not update.
FailedCreate(h) ==
    /\ h.calls # <<>>
    /\ h.calls[1].op = "create"
    /\ h.outcome \in {"raise", "noid"}

\* record j is the next dispatch, after record i, of the entity of record i
NextOfKey(i, j) ==
    /\ i < j
    /\ hist[j].args.called
    /\ KeyOf(hist[j]) = KeyOf(hist[i])
    /\ \A k \in (i + 1)..(j - 1) : ~(hist[k].args.called /\ KeyOf(hist[k]) = KeyOf(hist[i]))

CreatesAgain(i) ==
    \A j \in 1..Len(hist) :
        NextOfKey(i, j) => hist[j].calls # <<>> /\ hist[j].calls[1].op = "create"

C16_FileIsOneRunsCache ==
    (file.exists /\ file.complete) =>
        \/ load_mappings(file) = loaded
        \/ \E i \in 1..Len(hist) : hist[i].changed /\ load_mappings(file) = hist[i].after

C16_Witness ==
    \E i, j \in 1..Len(hist) :
        LET key == KeyOf(hist[i])
        IN  /\ hist[i].status = "created"
            /\ hist[i].persist = "ok"
            /\ MapGet(load_mappings(hist[i].installed), key) = hist[i].fresh
            /\ hist[j].status = "created"
            /\ KeyOf(hist[j]) = key
            /\ hist[j].prior = Runs \ {hist[j].proc}
            /\ hist[j].durable.complete
            /\ key \notin DOMAIN load_mappings(hist[j].durable)
            /\ hist[j].fresh # hist[i].fresh
            /\ \E n \in 1..Len(hist) :
                  /\ hist[n].proc # hist[i].proc
                  /\ hist[n].proc \notin hist[i].prior
                  /\ hist[i].proc \notin hist[n].prior
                  /\ hist[n].status = "created"
                  /\ hist[n].persist = "ok"
                  /\ key \notin DOMAIN hist[n].after
                  /\ load_mappings(hist[j].durable) = hist[n].after

\* ------------------------------------------------------------------------
\* C21.  Text truncation: notion_rich_text returns a text of at most 1900
\* characters as it is, and of a longer text a value of exactly 1900
\* characters: a prefix of the text followed by the marker "...".
C21_TextTruncation ==
    call.fn = "notion_rich_text" =>
        LET content == call.args[1]
            out     == call.result
        IN  IF Len(content) <= 1900 THEN out = content
            ELSE /\ Len(out) = 1900
                 /\ \E k \in 0..Len(content) : out = SubSeq(content, 1, k) \o <<".", ".", ".">>

\* a text one character over the limit
C21_Witness ==
    /\ call.fn = "notion_rich_text"
    /\ Len(call.args[1]) = 1901
    /\ call.args[1][1] = "a"
    /\ Len(call.result) = 1900
    /\ call.result[1897] = "a"
    /\ call.result[1898] = "."

\* ------------------------------------------------------------------------
\* C22.  The changed result of upsert_page is true exactly when the call
\* added an entry to the cache; so dispatch_events persists the cache only
\* after a mutation, and every mutation is followed by a persist before the
\* next event is processed.
Mutated(h) == h.after # h.before

ChangedIffMutated(h) ==
    /\ h.changed <=> Mutated(h)
    /\ h.persist # "none" => Mutated(h)
    /\ Mutated(h) => h.persist # "none"

C22_ChangedIffMutated ==
    \A i \in 1..Len(hist) :
        hist[i].args.called =>
            /\ ChangedIffMutated(hist[i])
            /\ (Mutated(hist[i]) /\ i < Len(hist)) => hist[i].persist \in {"ok", "failed"}

\* what holds instead: the same, for the calls whose create is not answered
\* without an id
C22_ChangedIffMutatedWithId ==
    \A i \in 1..Len(hist) :
        (hist[i].args.called /\ hist[i].status # "create_noid") =>
            /\ ChangedIffMutated(hist[i])
            /\ (Mutated(hist[i]) /\ i < Len(hist)) => hist[i].persist \in {"ok", "failed"}

\* ------------------------------------------------------------------------
\* C23.  The cache only grows within a run: whatever the events and the
\* remote outcomes, no key of the cache is removed and the id stored under
\* a key is never replaced by another id.

\* the cache is handed from one event to the next as it is
CacheHandedOn ==
    /\ \A i \in 1..(Len(hist) - 1) : hist[i + 1].before = hist[i].after
    /\ (Len(hist) > 0 /\ pc # "start") => mappings = Last.after

AliasPair(i, j) ==
    /\ i < j
    /\ HasHandler(i) /\ HasHandler(j)
    /\ HandlerOf(i) = HandlerOf(j)
    /\ events[i].event_type # events[j].event_type
    /\ events[i].entity = events[j].entity

C24_AliasesShareIdentity ==
    \A i, j \in 1..Len(hist) :
        AliasPair(i, j) =>
            /\ hist[i].args.called = hist[j].args.called
            /\ KeyOf(hist[i]) = KeyOf(hist[j])
            /\ ensure_database_id(hist[i].args.event_type, env) =
                   ensure_database_id(hist[j].args.event_type, env)
            /\ \A a \in 1..Len(hist[i].calls), b \in 1..Len(hist[j].calls) :
                   (hist[i].calls[a].op = "create" /\ hist[j].calls[b].op = "create") =>
                       hist[i].calls[a].target = hist[j].calls[b].target
            /\ (hist[i].status = "created" /\ j = i + 1) =>
                   /\ Len(hist[j].calls) = 1
                   /\ hist[j].calls[1].op = "update"
                   /\ hist[j].calls[1].target = hist[i].notion_id

\* two events of kinds that share a handler, one after the other: a create
\* and then an update of the created page
C24_Witness ==
    /\ Len(hist) = 2
    /\ AliasPair(1, 2)
    /\ hist[1].status = "created"
    /\ hist[2].status = "updated"
    /\ hist[2].calls[1].target = hist[1].fresh
    /\ Len(calls) = 2


\* ------------------------------------------------------------------------
\* the status an accepted action gives the workflow
TransitionOf(action) ==
    CASE action = "start" -> "running"
      [] action = "resume" -> "running"
      [] action = "pause" -> "paused"
      [] action = "stop" -> "completed"

\* the cases in which an action is to be rejected
ToBeRejected(status, action) ==
    \/ action = "start" /\ status = "running"
    \/ action = "resume" /\ status \notin {"paused", "failed"}
    \/ action = "pause" /\ status # "running"
    \/ action = "stop" /\ status \in {"idle", "completed"}

\* C25: dashboard actions are all-or-nothing. An action on an existing
\* workflow is answered 400 exactly in the cases start while running, resume
\* unless paused or failed, pause unless running, stop while idle or
\* completed, and then every workflow (status, runs, last_run) and the log
\* feed are as they were before the request. An accepted action gives the
\* workflow the status of its transition, leaves the other workflows alone,
\* appends exactly one log event, which names that workflow, and adds 1 to
\* runs when it is a start and nothing otherwise.
C25_ActionsAllOrNothing ==
    reply.status_code \in {200, 400} =>
        LET id == reply.workflow_id
            before == reply.workflows[id]
            after == workflows[id]
        IN  /\ reply.status_code = 400 <=> ToBeRejected(before.status, reply.action)
            /\ reply.status_code = 400 =>
                   /\ workflows = reply.workflows
                   /\ log_feed = reply.log_feed
            /\ reply.status_code = 200 =>
                   /\ after.status = TransitionOf(reply.action)
                   /\ after.runs = before.runs + (IF reply.action = "start" THEN 1 ELSE 0)
                   /\ \A other \in DOMAIN workflows \ {id} :
                          workflows[other] = reply.workflows[other]
                   /\ Len(log_feed) = Len(reply.log_feed) + 1
                   /\ SubSeq(log_feed, 1, Len(reply.log_feed)) = reply.log_feed
                   /\ log_feed[Len(log_feed)].workflow_id = id

\* a start is rejected for a workflow that an earlier, accepted start has
\* set running: its runs were counted once, by the accepted start
C25_Witness ==
    /\ reply.status_code = 400
    /\ reply.action = "start"
    /\ reply.workflow_id = "model_train"
    /\ workflows["model_train"].runs = 6
    /\ Len(log_feed) = 5

C26_NoneRepeatedLaterOnesReceived ==
    \A i \in 1..Len(client.received) :
        /\ client.received[i] <= 1
        /\ client.received[i] = 0 =>
               \E j \in 1..(i - 1) :
                   /\ client.received[j] = 1
                   /\ log_feed[j].timestamp = log_feed[i].timestamp

====
